---- MODULE Spec2Model ----
(***************************************************************************)
(* Model of the fact checker: KnowledgeBase (knowledge_base.py),           *)
(* FactChecker.verify_sentence (verifier.py), split_into_sentences         *)
(* (text_processor.py) and main (main.py).                                 *)
(*                                                                         *)
(* Python values are represented as follows.                               *)
(*   None / absent      the empty sequence <<>>; a present value v is <<v>>*)
(*   dict               a TLA+ record/function whose DOMAIN is its key set *)
(*   list               a sequence                                         *)
(*   f-string           the concatenation (\o) of its pieces               *)
(*   exception          a string naming it, carried in exc                 *)
(*   embedding vector   a pair of integers                                 *)
(***************************************************************************)
EXTENDS Integers, Sequences, FiniteSets, TLC

VARIABLES
    table,                  \* KnowledgeBase.table of the instance under study
    db,                     \* the table "fact_checker_kb" of /tmp/lancedb
    exc,                    \* exception propagated by the last call, or NoExc
    search_ret,             \* return value of the last direct search call
    last_call,              \* the last KnowledgeBase call and what the services did
    article,                \* main: article_to_verify, as its parts between full stops
    all_chunks,             \* main: all_chunks
    sentences,              \* main: sentences
    idx,                    \* main: position of the for loop in sentences
    final_results,          \* main: final_results
    report,                 \* main: the printed report, one entry per result
    pc,                     \* position of the program
    sentence,               \* verify_sentence: sentence
    hypothetical_document,  \* verify_sentence: hypothetical_document
    query_vector,           \* verify_sentence: query_vector
    retrieved_docs,         \* verify_sentence: retrieved_docs
    rerank_response,        \* verify_sentence: rerank_response.results, as their indices
    evidence_docs,          \* verify_sentence: evidence_docs
    sentence_vector,        \* verify_sentence: sentence_vector
    top_evidence_vector,    \* verify_sentence: top_evidence_vector
    quantitative_score,     \* verify_sentence: quantitative_score
    calls,                  \* verify_sentence: the service calls attempted so far
    faults,                 \* verify_sentence: the stages whose service call failed
    final_response,         \* verify_sentence: content of final_response, if received
    result,                 \* verify_sentence: the returned dictionary
    document,               \* chunk_text: document
    chunk_size,             \* chunk_text: chunk_size
    chunk_overlap,          \* chunk_text: chunk_overlap
    start_index,            \* chunk_text: start_index
    text_chunks             \* chunk_text: chunks

kbVars == <<table, db, search_ret, last_call>>
mainVars == <<article, all_chunks, sentences, idx, final_results, report>>
frameVars == <<sentence, hypothetical_document, query_vector, retrieved_docs,
               rerank_response, evidence_docs, sentence_vector, top_evidence_vector,
               quantitative_score, calls, faults, final_response, result>>
chunkVars == <<document, chunk_size, chunk_overlap, start_index, text_chunks>>
vars == <<kbVars, mainVars, frameVars, chunkVars, exc, pc>>

(***************************************************************************)
(* Bounds of the model.                                                    *)
(***************************************************************************)
MaxChunks == 2      \* chunks handed to one direct build call
MaxDocChunks == 1   \* chunks main gathers from the reference documents
MaxParts == 2       \* parts of the article between full stops

(***************************************************************************)
(* Program constants.                                                      *)
(***************************************************************************)
top_k == 10         \* verify_sentence: knowledge_base.search(query_vector, top_k=10)
top_n == 3          \* verify_sentence: rerank(..., top_n=3, ...)

None == <<>>
NoExc == "none"
Some(v) == <<v>>

Max(a, b) == IF a >= b THEN a ELSE b
Min(a, b) == IF a <= b THEN a ELSE b
Take(s, n) == SubSeq(s, 1, Min(n, Len(s)))
SeqsUpTo(S, n) == UNION {[1..m -> S] : m \in 0..n}

(***************************************************************************)
(* Values the services and the callers supply.                             *)
(***************************************************************************)
Vectors == {<<1, 0>>, <<-5, 12>>}
ErrMsgs == {"429"}    \* str(e) of a failing service call
GoodChunks == {[source |-> "S1", text |-> "t1"], [source |-> "S2", text |-> "t2"]}
BadChunks == {[source |-> "S1"], [text |-> "t1"]}
Other == "other"    \* another KnowledgeBase object on the same /tmp/lancedb
Self == "self"

(***************************************************************************)
(* KnowledgeBase                                                           *)
(***************************************************************************)
Row(chunk, vector) == [vector |-> vector, text |-> chunk.text, source |-> chunk.source]

\* df_data of build: one record per chunk, in input order, with embeddings[i].
df_data_partial(chunks, embeddings) ==
    [i \in 1..(Len(chunks) - 1) |-> Row(chunks[i], embeddings[i])]
df_data(chunks, embeddings) ==
    [i \in 1..Len(chunks) |-> Row(chunks[i], embeddings[i])]

\* The except clause of build: the table is set to None; nothing is re-raised.
BuildExcept_keep(tbl, d) == [table |-> tbl, db |-> d, exc |-> NoExc, failed |-> TRUE]
BuildExcept(tbl, d) == [table |-> None, db |-> d, exc |-> NoExc, failed |-> TRUE]

BuildFaults == {"none", "embed", "table_names", "drop_table", "create_table"}

\* KnowledgeBase.build(chunks) on an object whose table is tbl, the database
\* holding d.  fault names the service call that raises (if it is reached) and
\* embeddings is res.data of the batched embedding call.
\* The table handle it creates also records the chunks and the embeddings the
\* table was created from.
build(tbl, d, chunks, fault, embeddings) ==
    IF chunks = <<>>
    THEN [table |-> tbl, db |-> d, exc |-> NoExc, failed |-> FALSE]
    ELSE IF \E i \in 1..Len(chunks) : "text" \notin DOMAIN chunks[i]
    THEN [table |-> tbl, db |-> d, exc |-> "KeyError", failed |-> FALSE]
    ELSE IF fault = "embed" THEN BuildExcept(tbl, d)
    ELSE IF Len(embeddings) < Len(chunks) THEN BuildExcept(tbl, d)
    ELSE IF \E i \in 1..Len(chunks) : "source" \notin DOMAIN chunks[i]
    THEN BuildExcept(tbl, d)
    ELSE IF fault = "table_names" THEN BuildExcept(tbl, d)
    ELSE IF fault = "drop_table" /\ d # None THEN BuildExcept(tbl, d)
    ELSE IF fault = "create_table" THEN BuildExcept(tbl, None)
    ELSE LET rows == df_data(chunks, embeddings)
         IN  [table |-> Some([name |-> "fact_checker_kb", rows |-> rows,
                              chunks |-> chunks,
                              embeddings |-> Take(embeddings, Len(chunks))]),
              db |-> Some([owner |-> Self, rows |-> rows]),
              exc |-> NoExc, failed |-> FALSE]

\* Embedding responses for n inputs: one vector too few, exactly n, one too many.
EmbeddingResponses(n) ==
    UNION {[1..m -> Vectors] : m \in Max(n - 1, 0)..(n + 1)}

\* Squared L2 distance, the metric of table.search.
Distance(u, v) == (u[1] - v[1]) * (u[1] - v[1]) + (u[2] - v[2]) * (u[2] - v[2])

Hit(row, q) == [vector |-> row.vector, text |-> row.text, source |-> row.source,
                distance |-> Distance(row.vector, q)]

\* The orders in which the backend may return rows: nearest first, ties in any order.
NearestOrders(rows, q) ==
    {p \in [1..Len(rows) -> 1..Len(rows)] :
        /\ \A i, j \in 1..Len(rows) : i # j => p[i] # p[j]
        /\ \A i, j \in 1..Len(rows) :
              i < j => Distance(rows[p[i]].vector, q) <= Distance(rows[p[j]].vector, q)}

\* table.search(query_vector).limit(top_k).to_list() on rows.
BackendSearch(rows, q, k) ==
    {Take([i \in 1..Len(rows) |-> Hit(rows[p[i]], q)], k) : p \in NearestOrders(rows, q)}

\* The rows a table handle may read: its own while the database still holds the
\* table it created; after another object dropped or replaced that table, either
\* the rows it was created with or the rows now stored under the same name.
VisibleRows(tbl, d) ==
    IF d # None /\ d[1].owner = Self THEN {tbl[1].rows}
    ELSE {tbl[1].rows} \cup (IF d = None THEN {} ELSE {d[1].rows})

\* The except clause of search: the error is printed and [] returned.
SearchExcept_raise == [raised |-> TRUE, value |-> <<>>, failed |-> TRUE]
SearchExcept == [raised |-> FALSE, value |-> <<>>, failed |-> TRUE]

\* KnowledgeBase.search(query_vector, top_k): every outcome the backend allows.
search(tbl, d, q, k) ==
    IF tbl = None
    THEN {[raised |-> FALSE, value |-> <<>>, failed |-> FALSE]}
    ELSE {SearchExcept} \cup
         {[raised |-> FALSE, value |-> r, failed |-> FALSE] :
             r \in UNION {BackendSearch(rows, q, k) : rows \in VisibleRows(tbl, d)}}

(***************************************************************************)
(* text_processor.split_into_sentences                                     *)
(***************************************************************************)
PartPool == {"s1", " "}
FullStop == "."     \* stands for the ideographic full stop the code splits on

\* str.strip() on the parts of the model.
strip(s) == IF s \in {"", " "} THEN "" ELSE s

RECURSIVE SplitFrom(_, _)
SplitFrom(parts, i) ==
    IF i > Len(parts) THEN <<>>
    ELSE LET cleaned_part == strip(parts[i])
         IN  IF cleaned_part = "" THEN SplitFrom(parts, i + 1)
             ELSE IF i < Len(parts)
                  THEN <<cleaned_part \o FullStop>> \o SplitFrom(parts, i + 1)
                  ELSE <<cleaned_part>> \o SplitFrom(parts, i + 1)

\* split_into_sentences(text), text given as text.split(full stop).
split_into_sentences(parts) == SplitFrom(parts, 1)

(***************************************************************************)
(* FactChecker.verify_sentence                                             *)
(***************************************************************************)
HydePool == {"h1"}

\* What the generation service may answer at adjudication: text that is not JSON,
\* a JSON array, or a JSON object given by its members in textual order.
Invalid == [syntax |-> "invalid", members |-> <<>>]
Array == [syntax |-> "array", members |-> <<>>]
Object(members) == [syntax |-> "object", members |-> members]
AdjudicationResponses ==
    {Invalid, Array,
     Object(<<<<"decision", "Supported">>, <<"reason", "r1">>>>),
     Object(<<<<"decision", "Maybe">>, <<"reason", "r1">>>>),
     Object(<<<<"decision", "Refuted">>>>),
     Object(<<<<"reason", "r1">>>>)}

\* json.loads: raises on invalid text; an object becomes a dict, the last member
\* of a name giving its value.
json_loads(content) ==
    IF content.syntax = "invalid"
    THEN [ok |-> FALSE, type |-> "error", value |-> <<>>]
    ELSE IF content.syntax = "array"
    THEN [ok |-> TRUE, type |-> "list", value |-> <<>>]
    ELSE LET m == content.members
             keys == {m[i][1] : i \in 1..Len(m)}
             last(k) == CHOOSE i \in 1..Len(m) :
                           m[i][1] = k /\ \A j \in 1..Len(m) : m[j][1] = k => j <= i
         IN  [ok |-> TRUE, type |-> "dict", value |-> [k \in keys |-> m[last(k)][2]]]

\* dict.get(key, default)
get_falls_through(dct, key, default) == IF key \in DOMAIN dct THEN dct[key] ELSE "None"
get(dct, key, default) == IF key \in DOMAIN dct THEN dct[key] ELSE default

StageReason(stage, e) == "Error in " \o stage \o " stage: " \o e

\* The three except clauses and the two normal returns of verify_sentence.
\* An outcome is a returned dictionary or (raised) a propagated exception.
Returned(v) == [raised |-> FALSE, value |-> v]
Raised(e) == [raised |-> TRUE, value |-> e]

ExceptRetrieval_reranking(e) ==
    Returned([decision |-> "Error", reason |-> StageReason("Reranking", e), score |-> 0])
ExceptRetrieval(e) ==
    Returned([decision |-> "Error", reason |-> StageReason("Retrieval", e), score |-> 0])

ExceptReranking(e) ==
    Returned([decision |-> "Error", reason |-> StageReason("Reranking", e), score |-> 0])

ExceptVerification_reraise(e) == Raised(e)
ExceptVerification_score(e) ==
    Returned([decision |-> "Error", reason |-> StageReason("Verification", e),
              score |-> quantitative_score])
ExceptVerification_bare(e) ==
    Returned([decision |-> "Error", reason |-> StageReason("Verification", e)])
ExceptVerification(e) ==
    Returned([decision |-> "Error", reason |-> StageReason("Verification", e), score |-> 0])

NoDocuments ==
    Returned([decision |-> "Not Enough Information",
              reason |-> "No relevant documents found.", score |-> 0])

\* `if not retrieved_docs`
is_empty_never(docs) == FALSE
is_empty(docs) == docs = <<>>

final_result(llm_result) ==
    [original_sentence |-> sentence,
     score |-> quantitative_score,
     decision |-> get(llm_result, "decision", "Error"),
     reason |-> get(llm_result, "reason", "No reason provided."),
     evidence |-> evidence_docs]

\* What the rerank service may return for n documents, as the 0-based indices of
\* its results: the n documents in some order cut to top_n, no result at all, an
\* index past the end, or more than top_n results.
Permutations0(n) ==
    {p \in [1..n -> 0..(n - 1)] : \A i, j \in 1..n : i # j => p[i] # p[j]}
OverlongHits == [i \in 1..(top_n + 1) |-> 0]
RerankResponses(n) ==
    {Take(p, top_n) : p \in Permutations0(n)} \cup {<<>>, <<n>>, OverlongHits}

\* Integer square root; the vectors of the model have integral norms.
ISqrt(n) == CHOOSE r \in 0..n : r * r <= n /\ n < (r + 1) * (r + 1)
Dot(u, v) == u[1] * v[1] + u[2] * v[2]
Norm(u) == ISqrt(Dot(u, u))

\* int((cosine_similarity + 1) / 2 * 100), cosine_similarity = Dot / (Norm * Norm)
QuantitativeScore_rounded(u, v) ==
    LET den == Norm(u) * Norm(v)
    IN  (100 * (Dot(u, v) + den) + den) \div (2 * den)
QuantitativeScore(u, v) ==
    LET den == Norm(u) * Norm(v)
    IN  (100 * (Dot(u, v) + den)) \div (2 * den)

\* Entry into verify_sentence(s, knowledge_base).
Enter(s) ==
    /\ sentence' = s
    /\ hypothetical_document' = None
    /\ query_vector' = None
    /\ retrieved_docs' = <<>>
    /\ rerank_response' = <<>>
    /\ evidence_docs' = <<>>
    /\ sentence_vector' = None
    /\ top_evidence_vector' = None
    /\ quantitative_score' = 0
    /\ calls' = <<>>
    /\ faults' = <<>>
    /\ final_response' = None
    /\ result' = None
    /\ exc' = NoExc
    /\ pc' = "hyde"

\* The caller has taken the result: nothing of the call is left.
Discard ==
    /\ sentence' = ""
    /\ calls' = <<>>
    /\ faults' = <<>>
    /\ final_response' = None
    /\ UNCHANGED <<rerank_response, hypothetical_document, query_vector, retrieved_docs, evidence_docs,
                   sentence_vector, top_evidence_vector, quantitative_score>>

\* Leaving verify_sentence with outcome o; its locals end with the call.
Leave(o) ==
    /\ pc' = "returned"
    /\ result' = IF o.raised THEN None ELSE Some(o.value)
    /\ exc' = IF o.raised THEN o.value ELSE NoExc
    /\ hypothetical_document' = None
    /\ query_vector' = None
    /\ retrieved_docs' = <<>>
    /\ rerank_response' = <<>>
    /\ evidence_docs' = <<>>
    /\ sentence_vector' = None
    /\ top_evidence_vector' = None
    /\ quantitative_score' = 0

\* Stage 1: the hypothetical document is generated (gpt-4o-mini).
HydeGenerate ==
    /\ UNCHANGED chunkVars
    /\ pc = "hyde"
    /\ calls' = Append(calls, "hyde_generate")
    /\ \E ok \in BOOLEAN :
          IF ok
          THEN /\ \E h \in HydePool : hypothetical_document' = Some(h)
               /\ pc' = "hyde_embed"
               /\ UNCHANGED <<query_vector, retrieved_docs, rerank_response,
                              evidence_docs, sentence_vector, top_evidence_vector, quantitative_score,
                              faults, result, exc>>
          ELSE /\ \E e \in ErrMsgs : Leave(ExceptRetrieval(e))
               /\ faults' = Append(faults, "Retrieval")
    /\ UNCHANGED <<kbVars, mainVars, sentence, final_response>>

\* Stage 1: the hypothetical document is embedded.
HydeEmbed ==
    /\ UNCHANGED chunkVars
    /\ pc = "hyde_embed"
    /\ calls' = Append(calls, "hyde_embed")
    /\ \E ok \in BOOLEAN :
          IF ok
          THEN /\ \E v \in Vectors : query_vector' = Some(v)
               /\ pc' = "search"
               /\ UNCHANGED <<rerank_response, hypothetical_document, retrieved_docs, evidence_docs,
                              sentence_vector, top_evidence_vector, quantitative_score, faults, result, exc>>
          ELSE /\ \E e \in ErrMsgs : Leave(ExceptRetrieval(e))
               /\ faults' = Append(faults, "Retrieval")
    /\ UNCHANGED <<kbVars, mainVars, sentence, final_response>>

\* Stage 1: knowledge_base.search(query_vector, top_k=10) and the empty test.
Retrieve ==
    /\ UNCHANGED chunkVars
    /\ pc = "search"
    /\ calls' = Append(calls, "search")
    /\ \E o \in search(table, db, query_vector[1], top_k) :
          IF o.raised
          THEN Leave(ExceptRetrieval("search failed"))
          ELSE IF is_empty(o.value)
          THEN Leave(NoDocuments)
          ELSE /\ retrieved_docs' = o.value
               /\ pc' = "rerank"
               /\ UNCHANGED <<rerank_response, hypothetical_document, query_vector, evidence_docs,
                              sentence_vector, top_evidence_vector, quantitative_score, result, exc>>
    /\ UNCHANGED <<kbVars, mainVars, sentence, faults, final_response>>

\* evidence_docs: the (text, source) of the retrieved document each hit points at.
Project_search_order(docs, hits) ==
    [i \in 1..Len(hits) |->
        [text |-> docs[Min(i, Len(docs))].text, source |-> docs[Min(i, Len(docs))].source]]
Project(docs, hits) ==
    [i \in 1..Len(hits) |->
        [text |-> docs[hits[i] + 1].text, source |-> docs[hits[i] + 1].source]]

\* Stage 2: the rerank call and the projection of its results.
Rerank ==
    /\ UNCHANGED chunkVars
    /\ pc = "rerank"
    /\ calls' = Append(calls, "rerank")
    /\ \E ok \in BOOLEAN :
          IF ok
          THEN /\ \E hits \in RerankResponses(Len(retrieved_docs)) :
                     IF \E i \in 1..Len(hits) : hits[i] >= Len(retrieved_docs)
                     THEN Leave(ExceptReranking("list index out of range"))
                     ELSE /\ rerank_response' = hits
                          /\ evidence_docs' = Project(retrieved_docs, hits)
                          /\ pc' = "score_sentence"
                          /\ UNCHANGED <<hypothetical_document, query_vector,
                                         retrieved_docs, sentence_vector, top_evidence_vector,
                                         quantitative_score, result, exc>>
               /\ UNCHANGED faults
          ELSE /\ \E e \in ErrMsgs : Leave(ExceptReranking(e))
               /\ faults' = Append(faults, "Reranking")
    /\ UNCHANGED <<kbVars, mainVars, sentence, final_response>>

\* Stage 3a: the sentence is embedded.
ScoreSentence ==
    /\ UNCHANGED chunkVars
    /\ pc = "score_sentence"
    /\ calls' = Append(calls, "score_embed_sentence")
    /\ \E ok \in BOOLEAN :
          IF ok
          THEN /\ \E v \in Vectors : sentence_vector' = Some(v)
               /\ pc' = "score_evidence"
               /\ UNCHANGED <<rerank_response, hypothetical_document, query_vector, retrieved_docs,
                              evidence_docs, top_evidence_vector, quantitative_score, faults, result, exc>>
          ELSE /\ \E e \in ErrMsgs : Leave(ExceptVerification(e))
               /\ faults' = Append(faults, "Scoring")
    /\ UNCHANGED <<kbVars, mainVars, sentence, final_response>>

\* Stage 3a: evidence_docs[0] is taken and embedded, and the score computed.
ScoreEvidence ==
    /\ UNCHANGED chunkVars
    /\ pc = "score_evidence"
    /\ IF evidence_docs = <<>>
       THEN /\ Leave(ExceptVerification("list index out of range"))
            /\ UNCHANGED <<calls, faults>>
       ELSE /\ calls' = Append(calls, "score_embed_evidence")
            /\ \E ok \in BOOLEAN :
                  IF ok
                  THEN /\ \E v \in Vectors :
                             /\ top_evidence_vector' = Some(v)
                             /\ quantitative_score' = QuantitativeScore(sentence_vector[1], v)
                       /\ pc' = "adjudicate"
                       /\ UNCHANGED <<rerank_response, hypothetical_document, query_vector,
                                      retrieved_docs, evidence_docs, sentence_vector,
                                      faults, result, exc>>
                  ELSE /\ \E e \in ErrMsgs : Leave(ExceptVerification(e))
                       /\ faults' = Append(faults, "Scoring")
    /\ UNCHANGED <<kbVars, mainVars, sentence, final_response>>

\* Stage 3b: the adjudication call (gpt-4o), json.loads and the final result.
Adjudicate ==
    /\ UNCHANGED chunkVars
    /\ pc = "adjudicate"
    /\ calls' = Append(calls, "adjudicate")
    /\ \E ok \in BOOLEAN :
          IF ok
          THEN /\ \E content \in AdjudicationResponses :
                     /\ final_response' = Some(content)
                     /\ LET llm_result == json_loads(content)
                        IN  IF ~llm_result.ok
                            THEN Leave(ExceptVerification("Expecting value"))
                            ELSE IF llm_result.type # "dict"
                            THEN Leave(ExceptVerification("no attribute 'get'"))
                            ELSE Leave(Returned(final_result(llm_result.value)))
               /\ UNCHANGED faults
          ELSE /\ \E e \in ErrMsgs : Leave(ExceptVerification(e))
               /\ faults' = Append(faults, "Adjudication")
               /\ UNCHANGED final_response
    /\ UNCHANGED <<kbVars, mainVars, sentence>>

(***************************************************************************)
(* main                                                                    *)
(***************************************************************************)
NoCall == [op |-> "none", empty_input |-> FALSE, failed |-> FALSE]
BuildCall(chunks, o) == [op |-> "build", empty_input |-> chunks = <<>>, failed |-> o.failed]
SearchCall(o) == [op |-> "search", empty_input |-> FALSE, failed |-> o.failed]

\* A table a previous run left in /tmp/lancedb.
LeftoverRows == <<Row([source |-> "S0", text |-> "t0"], <<1, 0>>)>>

\* The chunks chunk_text cut from the reference documents: the first n windows.
DocChunk(i) == [source |-> "S1", text |-> "t" \o ToString(i)]
DocChunkLists == {[i \in 1..n |-> DocChunk(i)] : n \in 0..MaxDocChunks}

Articles == UNION {[1..m -> PartPool] : m \in 1..MaxParts}

\* list.append
append_front(lst, x) == <<x>> \o lst
append(lst, x) == Append(lst, x)

\* One report entry: the fields main prints, with its 'N/A' defaults.
ReportEntry(r) ==
    [sentence |-> get(r, "original_sentence", "N/A"),
     score |-> get(r, "score", "N/A"),
     decision |-> get(r, "decision", "N/A"),
     reason |-> get(r, "reason", "N/A"),
     evidence_shown |-> IF "evidence" \in DOMAIN r THEN Len(r.evidence) ELSE 0]

IdleFrame ==
    /\ sentence = ""
    /\ hypothetical_document = None
    /\ query_vector = None
    /\ retrieved_docs = <<>>
    /\ rerank_response = <<>>
    /\ evidence_docs = <<>>
    /\ sentence_vector = None
    /\ top_evidence_vector = None
    /\ quantitative_score = 0
    /\ calls = <<>>
    /\ faults = <<>>
    /\ final_response = None
    /\ result = None

\* No call of chunk_text is in progress.
IdleChunk ==
    /\ document = None
    /\ chunk_size = 0
    /\ chunk_overlap = 0
    /\ start_index = 0
    /\ text_chunks = <<>>

InitKB ==
    /\ table = None
    /\ db \in {None, Some([owner |-> Other, rows |-> LeftoverRows])}
    /\ search_ret = <<>>
    /\ last_call = NoCall

Init ==
    /\ IdleChunk
    /\ InitKB
    /\ IdleFrame
    /\ article \in Articles
    /\ all_chunks \in DocChunkLists
    /\ sentences = <<>>
    /\ idx = 1
    /\ final_results = <<>>
    /\ report = <<>>
    /\ exc = NoExc
    /\ pc = "main_build"

\* main after build(all_chunks) with outcome o: it returns when the table is None
\* and when build raised, and goes on to section 4 otherwise.
after_build_continue(o) == "main_split"
after_build(o) == IF o.exc # NoExc \/ o.table = None THEN "aborted" ELSE "main_split"

\* main, section 3: knowledge_base.build(all_chunks), the table check and the
\* except clause; either way of failing returns from main.
MainBuild ==
    /\ UNCHANGED chunkVars
    /\ pc = "main_build"
    /\ \E fault \in BuildFaults, embeddings \in EmbeddingResponses(Len(all_chunks)) :
          LET o == build(table, db, all_chunks, fault, embeddings)
          IN  /\ table' = o.table
              /\ db' = o.db
              /\ last_call' = BuildCall(all_chunks, o)
              /\ pc' = after_build(o)
    /\ UNCHANGED <<search_ret, mainVars, frameVars, exc>>

\* main, section 4: the article is split and the result list created.
MainSplit ==
    /\ UNCHANGED chunkVars
    /\ pc = "main_split"
    /\ sentences' = split_into_sentences(article)
    /\ final_results' = <<>>
    /\ idx' = 1
    /\ pc' = "main_loop"
    /\ UNCHANGED <<kbVars, article, all_chunks, report, frameVars, exc>>

\* The for loop takes the next sentence: a blank one is skipped, any other is
\* handed to verify_sentence.
MainLoop ==
    /\ UNCHANGED chunkVars
    /\ pc = "main_loop"
    /\ idx <= Len(sentences)
    /\ IF strip(sentences[idx]) = ""
       THEN /\ idx' = idx + 1
            /\ UNCHANGED <<pc, frameVars, exc>>
       ELSE /\ Enter(sentences[idx])
            /\ UNCHANGED idx
    /\ UNCHANGED <<kbVars, article, all_chunks, sentences, final_results, report>>

\* verify_sentence has returned: the result is appended; an exception it let
\* through ends main.
MainAppend ==
    /\ UNCHANGED chunkVars
    /\ pc = "returned"
    /\ IF exc # NoExc
       THEN /\ pc' = "crashed"
            /\ UNCHANGED <<final_results, idx>>
       ELSE /\ final_results' = append(final_results, result[1])
            /\ idx' = idx + 1
            /\ pc' = "main_loop"
    /\ Discard
    /\ UNCHANGED <<kbVars, article, all_chunks, sentences, report, result, exc>>

\* main, section 5: the report is printed once the loop has ended.
MainReport ==
    /\ UNCHANGED chunkVars
    /\ pc = "main_loop"
    /\ idx > Len(sentences)
    /\ report' = [i \in 1..Len(final_results) |-> ReportEntry(final_results[i])]
    /\ pc' = "done"
    /\ UNCHANGED <<kbVars, article, all_chunks, sentences, idx, final_results,
                   frameVars, exc>>

Next ==
    \/ MainBuild
    \/ MainSplit
    \/ MainLoop
    \/ MainAppend
    \/ MainReport
    \/ HydeGenerate
    \/ HydeEmbed
    \/ Retrieve
    \/ Rerank
    \/ ScoreSentence
    \/ ScoreEvidence
    \/ Adjudicate

Spec == Init /\ [][Next]_vars

(***************************************************************************)
(* The classes used directly: any sequence of build, search and            *)
(* verify_sentence calls on one KnowledgeBase, while other KnowledgeBase   *)
(* objects use the same database directory.                                *)
(***************************************************************************)
TopKs == {1, 2, top_k}
ClaimPool == {"s1"}
OtherRows == <<Row([source |-> "S9", text |-> "t9"], <<-5, 12>>)>>

InitApi ==
    /\ IdleChunk
    /\ InitKB
    /\ IdleFrame
    /\ article = <<>>
    /\ all_chunks = <<>>
    /\ sentences = <<>>
    /\ idx = 1
    /\ final_results = <<>>
    /\ report = <<>>
    /\ exc = NoExc
    /\ pc = "idle"

\* knowledge_base.build(chunks)
ApiBuild ==
    /\ UNCHANGED chunkVars
    /\ pc = "idle"
    /\ \E chunks \in SeqsUpTo(GoodChunks \cup BadChunks, MaxChunks) :
       \E fault \in BuildFaults, embeddings \in EmbeddingResponses(Len(chunks)) :
          LET o == build(table, db, chunks, fault, embeddings)
          IN  /\ table' = o.table
              /\ db' = o.db
              /\ exc' = o.exc
              /\ last_call' = BuildCall(chunks, o)
    /\ pc' = "kb_returned"
    /\ UNCHANGED <<search_ret, mainVars, frameVars>>

\* knowledge_base.search(query_vector, top_k)
ApiSearch ==
    /\ UNCHANGED chunkVars
    /\ pc = "idle"
    /\ \E q \in Vectors, k \in TopKs :
       \E o \in search(table, db, q, k) :
          /\ search_ret' = o.value
          /\ exc' = IF o.raised THEN "search failed" ELSE NoExc
          /\ last_call' = SearchCall(o)
    /\ pc' = "kb_returned"
    /\ UNCHANGED <<table, db, mainVars, frameVars>>

\* fact_checker.verify_sentence(s, knowledge_base)
ApiVerify ==
    /\ UNCHANGED chunkVars
    /\ pc = "idle"
    /\ \E s \in ClaimPool : Enter(s)
    /\ UNCHANGED <<kbVars, mainVars>>

\* The caller takes what the call returned (or raised) and goes on.
ApiReturn ==
    /\ UNCHANGED chunkVars
    /\ pc \in {"returned", "kb_returned"}
    /\ pc' = "idle"
    /\ Discard
    /\ result' = None
    /\ search_ret' = <<>>
    /\ last_call' = NoCall
    /\ exc' = NoExc
    /\ UNCHANGED <<table, db, mainVars>>

\* A build of another KnowledgeBase object: it replaces the shared table by its
\* own, or fails after having dropped it.
OtherBuild ==
    /\ UNCHANGED chunkVars
    /\ \/ db' = Some([owner |-> Other, rows |-> OtherRows])
       \/ db # None /\ db' = None
    /\ UNCHANGED <<table, search_ret, last_call, mainVars, frameVars, exc, pc>>

NextApi ==
    \/ ApiBuild
    \/ ApiSearch
    \/ ApiVerify
    \/ ApiReturn
    \/ OtherBuild
    \/ HydeGenerate
    \/ HydeEmbed
    \/ Retrieve
    \/ Rerank
    \/ ScoreSentence
    \/ ScoreEvidence
    \/ Adjudicate

SpecApi == InitApi /\ [][NextApi]_vars

(***************************************************************************)
(* Quantitative scoring on its own: the score of every pair of a sentence   *)
(* vector and a top evidence vector with integer coordinates up to         *)
(* MaxCoord and an integral norm, so that the cosine is an exact fraction.  *)
(***************************************************************************)
MaxCoord == 12

ScoreVectors ==
    {v \in (-MaxCoord..MaxCoord) \X (-MaxCoord..MaxCoord) :
        Dot(v, v) > 0 /\ Norm(v) * Norm(v) = Dot(v, v)}

InitScore ==
    /\ IdleChunk
    /\ table = None
    /\ db = None
    /\ search_ret = <<>>
    /\ last_call = NoCall
    /\ article = <<>>
    /\ all_chunks = <<>>
    /\ sentences = <<>>
    /\ idx = 1
    /\ final_results = <<>>
    /\ report = <<>>
    /\ exc = NoExc
    /\ sentence = "s1"
    /\ hypothetical_document = None
    /\ query_vector = None
    /\ retrieved_docs = <<>>
    /\ rerank_response = <<>>
    /\ evidence_docs = <<>>
    /\ sentence_vector \in {Some(v) : v \in ScoreVectors}
    /\ top_evidence_vector = None
    /\ quantitative_score = 0
    /\ calls = <<>>
    /\ faults = <<>>
    /\ final_response = None
    /\ result = None
    /\ pc = "score"

\* Stage 3a on its own: the top evidence vector arrives and the score is computed.
QuantitativeScoring ==
    /\ UNCHANGED chunkVars
    /\ pc = "score"
    /\ \E v \in ScoreVectors :
          /\ top_evidence_vector' = Some(v)
          /\ quantitative_score' = QuantitativeScore(sentence_vector[1], v)
    /\ pc' = "scored"
    /\ UNCHANGED <<kbVars, mainVars, sentence, hypothetical_document, query_vector,
                   retrieved_docs, rerank_response, evidence_docs, sentence_vector,
                   calls, faults, final_response, result, exc>>

NextScore == QuantitativeScoring

SpecScore == InitScore /\ [][NextScore]_vars

(***************************************************************************)
(* chunk_text on its own: one call on a document whose text has up to       *)
(* MaxLen characters, with every chunk_size up to MaxSize and every         *)
(* chunk_overlap below it, and the call with the default sizes on a text    *)
(* of 1040 characters.  A text is the sequence of its characters; the       *)
(* character at position i is written i.                                    *)
(***************************************************************************)
MaxLen == 5
MaxSize == 4
default_chunk_size == 500
default_chunk_overlap == 50

Text(n) == [i \in 1..n |-> i]
Documents ==
    {[source |-> "S1", text |-> Text(n)] : n \in 0..MaxLen}
        \cup {[text |-> Text(n)] : n \in 1..MaxLen}
        \cup {[source |-> "S1"]}
LongDocument == [source |-> "S1", text |-> Text(1040)]

\* text[a:b] for 0 <= a
Slice(text, a, b) == SubSeq(text, a + 1, Min(b, Len(text)))

\* start_index += chunk_size - chunk_overlap
next_start_no_overlap(start, size, overlap) == start + size
next_start(start, size, overlap) == start + size - overlap

InitChunk ==
    /\ table = None
    /\ db = None
    /\ search_ret = <<>>
    /\ last_call = NoCall
    /\ IdleFrame
    /\ article = <<>>
    /\ all_chunks = <<>>
    /\ sentences = <<>>
    /\ idx = 1
    /\ final_results = <<>>
    /\ report = <<>>
    /\ exc = NoExc
    /\ \/ /\ document \in Documents
          /\ chunk_size \in 1..MaxSize
          /\ chunk_overlap \in 0..(chunk_size - 1)
       \/ /\ document = LongDocument
          /\ chunk_size = default_chunk_size
          /\ chunk_overlap = default_chunk_overlap
    /\ start_index = 0
    /\ text_chunks = <<>>
    /\ pc = "chunk_text"

\* chunk_text up to the loop: a document without text returns [].
ChunkText ==
    /\ pc = "chunk_text"
    /\ text_chunks' = <<>>
    /\ start_index' = 0
    /\ pc' = IF get(document, "text", <<>>) = <<>> THEN "chunk_returned" ELSE "chunk_while"
    /\ UNCHANGED <<kbVars, mainVars, frameVars, document, chunk_size, chunk_overlap, exc>>

\* One pass of the while loop: the window at start_index is appended and
\* start_index moved on; the loop ends once it has reached the end of the text.
ChunkWhile ==
    /\ pc = "chunk_while"
    /\ LET text == get(document, "text", <<>>)
           source == get(document, "source", "")
           end_index == start_index + chunk_size
       IN  IF start_index < Len(text)
           THEN /\ text_chunks' = Append(text_chunks,
                                         [source |-> source,
                                          text |-> Slice(text, start_index, end_index)])
                /\ start_index' = next_start(start_index, chunk_size, chunk_overlap)
                /\ pc' = IF start_index' >= Len(text) THEN "chunk_returned" ELSE "chunk_while"
           ELSE /\ pc' = "chunk_returned"
                /\ UNCHANGED <<text_chunks, start_index>>
    /\ UNCHANGED <<kbVars, mainVars, frameVars, document, chunk_size, chunk_overlap, exc>>

NextChunk ==
    \/ ChunkText
    \/ ChunkWhile

\* The call runs on: a loop that can take a pass takes it.
SpecChunk == InitChunk /\ [][NextChunk]_vars /\ WF_vars(NextChunk)

(***************************************************************************)
(* Properties                                                              *)
(***************************************************************************)
InVerify == pc \in {"hyde", "hyde_embed", "search", "rerank", "score_sentence",
                    "score_evidence", "adjudicate", "returned"}
Verdict == result[1]
LaterStageCalls == {"rerank", "score_embed_sentence", "score_embed_evidence", "adjudicate"}
Called(c) == \E i \in 1..Len(calls) : calls[i] = c
NonBlankClaims == SelectSeq(sentences, LAMBDA s : strip(s) # "")

\* C1: in a run of main whose Knowledge Base was built, whatever calls fail, no
\* exception ends the loop, the result list holds one verdict for each claim
\* already taken from the list, in the order of the claims, and at the end one
\* verdict (and one report entry) per non-blank claim.
C1_OneVerdictPerClaim ==
    /\ pc # "crashed"
    /\ (pc = "main_loop" \/ InVerify) =>
          /\ idx <= Len(sentences) + 1
          /\ Len(final_results) = idx - 1
    /\ pc = "returned" => result # None /\ exc = NoExc
    /\ pc = "done" =>
          /\ Len(final_results) = Len(NonBlankClaims)
          /\ Len(report) = Len(NonBlankClaims)
    /\ \A i \in 1..Len(final_results) :
          /\ i <= Len(NonBlankClaims)
          /\ "original_sentence" \in DOMAIN final_results[i] =>
                final_results[i].original_sentence = NonBlankClaims[i]

\* C1 witness: a finished run of two claims, the first failed, the second completed.
C1_Witness ==
    /\ pc = "done"
    /\ Len(final_results) = 2
    /\ final_results[1].decision = "Error"
    /\ "evidence" \in DOMAIN final_results[2]
    /\ final_results[2].original_sentence = sentences[2]

\* The stage name the code puts into the reason for a failure of each stage.
NamedStage(stage) ==
    IF stage \in {"Scoring", "Adjudication"} THEN "Verification" ELSE stage

\* C2 as stated: when the service call of a stage fails, the verdict is an Error
\* whose reason names that stage (Retrieval, Reranking, Scoring or Adjudication).
C2_ReasonNamesFailedStage ==
    (pc = "returned" /\ faults # <<>>) =>
        /\ result # None
        /\ Verdict.decision = "Error"
        /\ \E e \in ErrMsgs : Verdict.reason = StageReason(faults[1], e)

\* C2 amended: when the service call of a stage fails, the verdict is an Error
\* whose reason names Retrieval or Reranking for these two stages, and names
\* "Verification" for a failure of Scoring as well as of Adjudication.
C2_ReasonNamesCodeStage ==
    (pc = "returned" /\ faults # <<>>) =>
        /\ result # None
        /\ Len(faults) = 1
        /\ Verdict.decision = "Error"
        /\ \E e \in ErrMsgs : Verdict.reason = StageReason(NamedStage(faults[1]), e)

\* C2 witness: the adjudication call failed and the reason names Verification.
C2_Witness ==
    /\ pc = "returned"
    /\ faults = <<"Adjudication">>
    /\ result # None
    /\ Verdict.reason = "Error in Verification stage: 429"

\* C3 as stated: verify_sentence against an unbuilt Knowledge Base always returns
\* Not Enough Information with score 0 and calls no later stage.
C3_UnbuiltGivesNotEnoughInformation ==
    (pc = "returned" /\ table = None) =>
        /\ result # None
        /\ Verdict.decision = "Not Enough Information"
        /\ Verdict.score = 0
        /\ \A c \in LaterStageCalls : ~Called(c)

\* C3 amended: against an unbuilt Knowledge Base no later stage is ever called;
\* when generation and embedding of the hypothetical passage succeed the search
\* is empty and the verdict is Not Enough Information with score 0, and when one
\* of them fails the verdict is a Retrieval Error with score 0.
C3_UnbuiltStopsAfterRetrieval ==
    (InVerify /\ table = None) =>
        /\ \A c \in LaterStageCalls : ~Called(c)
        /\ retrieved_docs = <<>>
        /\ pc = "returned" =>
              /\ result # None
              /\ Verdict.score = 0
              /\ IF faults = <<>>
                 THEN /\ calls = <<"hyde_generate", "hyde_embed", "search">>
                      /\ Verdict.decision = "Not Enough Information"
                 ELSE /\ ~Called("search")
                      /\ Verdict.decision = "Error"
                      /\ \E e \in ErrMsgs : Verdict.reason = StageReason("Retrieval", e)

\* C3 witness: the search on the unbuilt Knowledge Base was made and came back empty.
C3_Witness ==
    /\ pc = "returned"
    /\ table = None
    /\ calls = <<"hyde_generate", "hyde_embed", "search">>
    /\ result # None
    /\ Verdict.decision = "Not Enough Information"

ParseErrorTexts == {"Expecting value", "no attribute 'get'"}
HasMember(content, name) ==
    /\ content.syntax = "object"
    /\ \E i \in 1..Len(content.members) : content.members[i][1] = name

\* C4: whatever the adjudication model answered, verify_sentence raises nothing
\* and returns a verdict; the decision is "Error" when the answer gives none (not
\* JSON, not an object, no decision member) and the reason is a text of the
\* program when the answer gives none: "No reason provided." for an object
\* without reason, the Verification error text when no object was parsed.
C4_MalformedAdjudicationDegrades ==
    (pc = "returned" /\ final_response # None) =>
        LET content == final_response[1]
        IN  /\ exc = NoExc
            /\ result # None
            /\ {"decision", "reason", "score"} \subseteq DOMAIN Verdict
            /\ ~HasMember(content, "decision") => Verdict.decision = "Error"
            /\ (content.syntax = "object" /\ ~HasMember(content, "reason")) =>
                  Verdict.reason = "No reason provided."
            /\ content.syntax # "object" =>
                  \E e \in ParseErrorTexts :
                      Verdict.reason = StageReason("Verification", e)

\* C4 witness: an answer that is not JSON was received and the verdict is an Error.
C4_Witness ==
    /\ pc = "returned"
    /\ final_response = Some(Invalid)
    /\ result # None
    /\ Verdict.decision = "Error"

VerdictFields == {"original_sentence", "score", "decision", "reason", "evidence"}
Completed ==
    /\ final_response # None
    /\ final_response[1].syntax = "object"

\* C5 as stated: every value verify_sentence returns carries all five fields.
C5_AllFiveFields ==
    pc = "returned" => (result # None /\ DOMAIN Verdict = VerdictFields)

\* C5 amended: every value verify_sentence returns carries score, decision and
\* reason; it carries the claim text and the evidence as well exactly when the
\* call completed, and only these three fields on empty retrieval and on a
\* failure in any stage.
C5_ThreeFieldsAlwaysFiveOnCompletion ==
    pc = "returned" =>
        /\ result # None
        /\ IF Completed
           THEN DOMAIN Verdict = VerdictFields
           ELSE DOMAIN Verdict = {"score", "decision", "reason"}

\* C5 witness: an empty retrieval returned a verdict of three fields.
C5_Witness ==
    /\ pc = "returned"
    /\ result # None
    /\ Verdict.decision = "Not Enough Information"
    /\ DOMAIN Verdict = {"score", "decision", "reason"}

Decisions == {"Supported", "Refuted", "Not Enough Information", "Error"}

\* C6: the decision of every returned verdict is one of Supported, Refuted,
\* Not Enough Information, Error.
C6_DecisionInEnum ==
    (pc = "returned" /\ result # None) => Verdict.decision \in Decisions

\* C7: a returned verdict that carries no evidence item has score 0.
C7_NoEvidenceScoreZero ==
    (pc = "returned" /\ result # None) =>
        (("evidence" \notin DOMAIN Verdict \/ Verdict.evidence = <<>>) =>
            Verdict.score = 0)

\* C7 witness: the adjudication call failed after the score had been computed,
\* and the verdict, without evidence, has score 0.
C7_Witness ==
    /\ pc = "returned"
    /\ faults = <<"Adjudication">>
    /\ result # None
    /\ "evidence" \notin DOMAIN Verdict
    /\ Verdict.score = 0

Unbuilt ==
    /\ table = None
    /\ \A q \in Vectors, k \in TopKs :
          search(table, db, q, k) = {[raised |-> FALSE, value |-> <<>>, failed |-> FALSE]}

\* C8: once build([]) has returned, the Knowledge Base is unbuilt and search
\* returns an empty sequence, whatever the earlier builds did.
C8_EmptyBuildLeavesUnbuilt ==
    (pc = "kb_returned" /\ last_call.op = "build" /\ last_call.empty_input) => Unbuilt

\* C9: once a build has failed (the embedding call, the construction of the
\* records or the creation of the index raised), no exception has left build
\* and the Knowledge Base is unbuilt: search returns an empty sequence.
C9_FailedBuildLeavesUnbuilt ==
    (pc = "kb_returned" /\ last_call.op = "build" /\ last_call.failed) =>
        (exc = NoExc /\ Unbuilt)

\* C9 witness: a build failed on an object whose earlier build had created the
\* table the database still holds.
C9_Witness ==
    /\ pc = "kb_returned"
    /\ last_call.op = "build"
    /\ last_call.failed
    /\ db # None
    /\ db[1].owner = Self
    /\ table = None

\* C10: search always returns a sequence and never raises; the sequence is empty
\* when the Knowledge Base is unbuilt and when the backend search failed.
C10_SearchTotal ==
    /\ \A q \in Vectors, k \in TopKs :
          /\ search(table, db, q, k) # {}
          /\ \A o \in search(table, db, q, k) :
                /\ ~o.raised
                /\ Len(o.value) <= k
                /\ (table = None \/ o.failed) => o.value = <<>>
    /\ (pc = "kb_returned" /\ last_call.op = "search") =>
          /\ exc = NoExc
          /\ (table = None \/ last_call.failed) => search_ret = <<>>

\* C10 witness: the backend failed during a search on a built Knowledge Base.
C10_Witness ==
    /\ pc = "kb_returned"
    /\ last_call.op = "search"
    /\ last_call.failed
    /\ table # None
    /\ search_ret = <<>>
    /\ exc = NoExc

\* C11: in every completed verdict, evidence[i] is the (text, source) pair of the
\* retrieved candidate at the i-th index the rerank service returned: as many
\* items as results, each one a retrieved candidate, in the order of the results.
C11_EvidenceFollowsReranker ==
    [][(pc = "adjudicate" /\ result' # None /\ "evidence" \in DOMAIN result'[1]) =>
          /\ Len(result'[1].evidence) = Len(rerank_response)
          /\ \A i \in 1..Len(rerank_response) :
                /\ rerank_response[i] + 1 \in 1..Len(retrieved_docs)
                /\ result'[1].evidence[i] =
                      [text |-> retrieved_docs[rerank_response[i] + 1].text,
                       source |-> retrieved_docs[rerank_response[i] + 1].source]]_vars

\* C11 witness: the rerank service put the second retrieved candidate first, and
\* the evidence the verdict is about to carry starts with that candidate.
C11_Witness ==
    /\ pc = "adjudicate"
    /\ Len(retrieved_docs) = 2
    /\ rerank_response = <<1, 0>>
    /\ retrieved_docs[1].text # retrieved_docs[2].text
    /\ evidence_docs[1].text = retrieved_docs[2].text
    /\ evidence_docs[2].text = retrieved_docs[1].text

\* round(n / d) of Python for n >= 0, d > 0: to the nearest integer, a half to
\* the even neighbour.
PyRound(n, d) ==
    LET q == n \div d
        r == n % d
    IN  IF 2 * r < d THEN q
        ELSE IF 2 * r > d THEN q + 1
        ELSE IF q % 2 = 0 THEN q ELSE q + 1

\* The cosine of every pair of vectors of the pool, as dot / den, with its score.
ScoreTable ==
    {[dot |-> Dot(a, b), den |-> Norm(a) * Norm(b), score |-> QuantitativeScore(a, b)] :
        a \in ScoreVectors, b \in ScoreVectors}

ScoreDot == Dot(sentence_vector[1], top_evidence_vector[1])
ScoreDen == Norm(sentence_vector[1]) * Norm(top_evidence_vector[1])

\* The score is in 0..100, no pair with a smaller or equal cosine scores more.
ScoreInRangeAndMonotone ==
    /\ quantitative_score \in 0..100
    /\ \A t \in ScoreTable :
          t.dot * ScoreDen <= ScoreDot * t.den => t.score <= quantitative_score

\* C12 as stated: the score is (cos + 1) / 2 * 100 rounded to the nearest
\* integer, lies in 0..100, does not decrease when cos grows, and is 100 for
\* identical vectors.
C12_ScoreIsRounded ==
    pc = "scored" =>
        /\ quantitative_score = PyRound(100 * (ScoreDot + ScoreDen), 2 * ScoreDen)
        /\ ScoreInRangeAndMonotone
        /\ sentence_vector = top_evidence_vector => quantitative_score = 100

\* C12 amended: the score is (cos + 1) / 2 * 100 with its fraction cut off (the
\* integer s with s <= (cos + 1) / 2 * 100 < s + 1), lies in 0..100, does not
\* decrease when cos grows, and is 100 when cos = 1.
C12_ScoreIsTruncated ==
    pc = "scored" =>
        /\ 2 * ScoreDen * quantitative_score <= 100 * (ScoreDot + ScoreDen)
        /\ 100 * (ScoreDot + ScoreDen) < 2 * ScoreDen * (quantitative_score + 1)
        /\ ScoreInRangeAndMonotone
        /\ ScoreDot = ScoreDen => quantitative_score = 100

\* C12 witness: a pair whose exact value has a fraction above one half, scored
\* one below the nearest integer.
C12_Witness ==
    /\ pc = "scored"
    /\ 2 * ((100 * (ScoreDot + ScoreDen)) % (2 * ScoreDen)) > 2 * ScoreDen
    /\ quantitative_score + 1 = PyRound(100 * (ScoreDot + ScoreDen), 2 * ScoreDen)

\* C13: once the build of a run of main has failed, the run has ended there:
\* verify_sentence is never entered, no service call of a verification is made,
\* no verdict is collected and no report printed.
C13_FailedBuildAborts ==
    (last_call.op = "build" /\ last_call.failed) =>
        /\ pc = "aborted"
        /\ sentence = ""
        /\ calls = <<>>
        /\ result = None
        /\ sentences = <<>>
        /\ final_results = <<>>
        /\ report = <<>>

\* C13 witness: the build of a run with chunks failed and the run has ended.
C13_Witness ==
    /\ pc = "aborted"
    /\ all_chunks # <<>>
    /\ last_call.op = "build"
    /\ last_call.failed
    /\ table = None

\* The windows of the claim: one for each i >= 0 with i * step < L, from
\* position i * step, of chunk_size characters or as many as are left.
WindowCount ==
    LET step == chunk_size - chunk_overlap
    IN  (Len(document.text) + step - 1) \div step
Window(i) ==
    LET step == chunk_size - chunk_overlap
    IN  [j \in 1..(Min(i * step + chunk_size, Len(document.text)) - i * step) |->
            document.text[i * step + j]]

ChunksAreTheWindows ==
    /\ Len(text_chunks) = WindowCount
    /\ \A i \in 0..(WindowCount - 1) :
          /\ text_chunks[i + 1].text = Window(i)
          /\ text_chunks[i + 1].source = get(document, "source", "")

\* C14: for a text of L >= 1 characters and 0 <= chunk_overlap < chunk_size,
\* chunk_text terminates and returns exactly the windows
\* text[i * step : i * step + chunk_size], step = chunk_size - chunk_overlap, for
\* each i >= 0 with i * step < L, in that order and tagged with the document's
\* source; a text of 1040 characters with sizes 500 and 50 gives three chunks,
\* starting at offsets 0, 450 and 900.
C14_ChunkTextWindows ==
    /\ <>(pc = "chunk_returned")
    /\ []((pc = "chunk_returned" /\ "text" \in DOMAIN document
              /\ Len(document.text) >= 1 /\ chunk_overlap < chunk_size) =>
            /\ ChunksAreTheWindows
            /\ (Len(document.text) = 1040 /\ chunk_size = 500 /\ chunk_overlap = 50) =>
                  /\ Len(text_chunks) = 3
                  /\ text_chunks[1].text[1] = 1
                  /\ text_chunks[2].text[1] = 451
                  /\ text_chunks[3].text[1] = 901)

\* C14 witness: chunk_text has returned the three chunks of the text of 1040
\* characters, the last one holding the 140 characters from offset 900.
C14_Witness ==
    /\ pc = "chunk_returned"
    /\ document = LongDocument
    /\ chunk_size = 500
    /\ chunk_overlap = 50
    /\ Len(text_chunks) = 3
    /\ Len(text_chunks[2].text) = 500
    /\ text_chunks[3].text = [j \in 1..140 |-> 900 + j]

\* The service calls of one verify_sentence call, in the order of the code.
CallOrder ==
    <<"hyde_generate", "hyde_embed", "search", "rerank", "score_embed_sentence",
      "score_embed_evidence", "adjudicate">>

\* C15: within one verify_sentence call the service calls made so far are an
\* initial part of the fixed order Retrieval (generate, embed, search),
\* Reranking, Scoring, Adjudication, each made at most once; once a call has
\* failed or the search has returned no candidate, the call has returned, and
\* nothing is called after the return.
C15_StagesInOrderOnce ==
    /\ [](InVerify =>
            /\ Len(calls) <= Len(CallOrder)
            /\ calls = SubSeq(CallOrder, 1, Len(calls))
            /\ faults # <<>> => (pc = "returned" /\ Len(faults) = 1)
            /\ (Called("search") /\ retrieved_docs = <<>>) => pc = "returned")
    /\ [][pc = "returned" => (calls' = calls \/ calls' = <<>>)]_vars

\* C15 witness: the rerank call failed after the three calls of Retrieval, and
\* the call returned without a call of Scoring or Adjudication.
C15_Witness ==
    /\ pc = "returned"
    /\ faults = <<"Reranking">>
    /\ calls = SubSeq(CallOrder, 1, 4)
    /\ result # None
    /\ Verdict.decision = "Error"

\* C16: the evidence of every verdict has at most top_n items, however many
\* results the rerank service returned.
C16_EvidenceAtMostTopN ==
    (pc = "returned" /\ result # None /\ "evidence" \in DOMAIN Verdict) =>
        Len(Verdict.evidence) <= top_n

\* C17: a run of main whose chunk list is empty is not ended by the build: it
\* is never in the aborted state, and once it is done it has one verdict per
\* claim of the article.
C17_EmptyChunksRunVerifies ==
    all_chunks = <<>> =>
        /\ pc # "aborted"
        /\ pc = "done" => Len(final_results) = Len(NonBlankClaims)

\* The records of a sequence of search results, without their distances.
Records(hits) ==
    {[vector |-> hits[i].vector, text |-> hits[i].text, source |-> hits[i].source] :
        i \in 1..Len(hits)}
RowSet(rows) == {rows[i] : i \in 1..Len(rows)}

\* C18: whatever builds came before and however they ended, a Knowledge Base
\* that has a table holds one record per chunk of the build that created the
\* table, in input order, record i made of chunk i's text and source and the
\* i-th returned embedding; and a search that asks for at least as many results
\* as there are records returns nothing or all the records of one build, never
\* only a part of them.
C18_BuiltMeansFullyBuilt ==
    table # None =>
        /\ table[1].chunks # <<>>
        /\ Len(table[1].rows) = Len(table[1].chunks)
        /\ \A i \in 1..Len(table[1].chunks) :
              /\ table[1].rows[i].text = table[1].chunks[i].text
              /\ table[1].rows[i].source = table[1].chunks[i].source
              /\ table[1].rows[i].vector = table[1].embeddings[i]
        /\ \A q \in Vectors : \A o \in search(table, db, q, top_k) :
              \/ o.value = <<>>
              \/ /\ Records(o.value) = RowSet(table[1].rows)
                 /\ Len(o.value) = Len(table[1].rows)
              \/ /\ db # None
                 /\ db[1].owner = Other
                 /\ Records(o.value) = RowSet(db[1].rows)
                 /\ Len(o.value) = Len(db[1].rows)

\* C18 witness: a build of two different chunks has just succeeded on an object
\* and the table holds their two records in the order of the chunks.
C18_Witness ==
    /\ pc = "kb_returned"
    /\ last_call.op = "build"
    /\ ~last_call.failed
    /\ table # None
    /\ Len(table[1].rows) = 2
    /\ table[1].rows[1].text = "t2"
    /\ table[1].rows[2].text = "t1"
    /\ table[1].rows[1].vector # table[1].rows[2].vector

\* C19: the records a built Knowledge Base returns from search are those of its
\* own build, whatever other KnowledgeBase objects have built since: every
\* search that does not fail returns records of the table it created.
C19_InstancesIsolated ==
    table # None =>
        \A q \in Vectors, k \in TopKs : \A o \in search(table, db, q, k) :
            o.failed \/ o.value \in BackendSearch(table[1].rows, q, k)

====
